---- MODULE Spec2Model ----
(***************************************************************************)
(* Model of timewarrior-grouped (src/src/main.rs): a report extension that *)
(* reads settings lines and a JSON array of intervals on standard input,   *)
(* groups the intervals by their joined tags, and prints a table.          *)
(*                                                                         *)
(* A String is a sequence of one-character strings, so that find, slicing, *)
(* join and len are computed as the code computes them.  An Option is a    *)
(* sequence of length 0 (None) or 1 (Some).  A DateTime<Local> is a record *)
(* [days, secs, offset]: the UTC day number since 1970-01-01, the UTC      *)
(* second of the day, and the local offset in seconds.  A chrono::Duration *)
(* is an integer number of seconds.                                        *)
(***************************************************************************)
EXTENDS Integers, Sequences, FiniteSets, TLC

VARIABLES
    pc,              \* position of the running function
    panic_line,      \* source line of the unwrap() that aborted the run, 0 if none
    stdin,           \* the lines std::io::stdin().lines() yields
    nread,           \* how many of them the for_each of get_data has taken
    tz,              \* Local::now().offset(), in seconds east of UTC
    settings,        \* get_data: settings / Data.settings
    interval_lines,  \* get_data: interval_lines
    payload,         \* get_data: interval_lines.join("")
    intervals,       \* Data.intervals
    title,           \* the value report_title returned, as an Option
    rows,            \* main: rows
    max_title,       \* main: max_title
    total_duration,  \* main: total_duration
    it,              \* main: number of rows the reversed iterator has still to yield
    annotated,       \* main: annotated_intervals, then the part still to print
    stdout           \* the lines written to standard output

vars == <<pc, panic_line, stdin, nread, tz, settings, interval_lines, payload,
          intervals, title, rows, max_title, total_duration, it, annotated, stdout>>

----------------------------------------------------------------------------
(* Bounds of the model. *)

MaxIntervals == 3
MaxSettings == 3
MaxLines == 2
MaxLineLen == 4

----------------------------------------------------------------------------
(* Strings *)

None == <<>>
Some(v) == <<v>>

\* "...".len() where the width or the slice bound of a String is needed
StrLen(s) == Len(s)

\* [s].join(sep) for a sequence of Strings, as slice::join builds it:
\* the first element, then the separator before every later element.
RECURSIVE JoinFrom(_, _, _)
JoinFrom(strs, sep, i) ==
    IF i > Len(strs) THEN <<>>
    ELSE (IF i = 1 THEN <<>> ELSE sep) \o strs[i] \o JoinFrom(strs, sep, i + 1)

Join(strs, sep) == JoinFrom(strs, sep, 1)

\* str::find(pat): Some(index of the first match, counted from 0), or None
IsAt(s, pat, i) ==
    /\ i + Len(pat) - 1 <= Len(s)
    /\ \A k \in 1..Len(pat) : s[i + k - 1] = pat[k]

Find(s, pat) ==
    LET hits == {i \in 1..Len(s) : IsAt(s, pat, i)}
    IN  IF hits = {} THEN None
        ELSE Some((CHOOSE i \in hits : \A j \in hits : i <= j) - 1)

\* String of n spaces
RECURSIVE Spaces(_)
Spaces(n) == IF n <= 0 THEN <<>> ELSE <<" ">> \o Spaces(n - 1)

\* usize::checked_sub gives None when s is longer than len
pad_string(s, len) ==
    IF len >= StrLen(s) THEN Spaces(len - StrLen(s)) \o s ELSE s

----------------------------------------------------------------------------
(* mod timewarrior_datetime, date_time_to_date_string *)

DigitChars == <<"0", "1", "2", "3", "4", "5", "6", "7", "8", "9">>

IsDigit(c) == \E i \in 1..10 : DigitChars[i] = c

DigitVal(c) == (CHOOSE i \in 1..10 : DigitChars[i] = c) - 1

\* the number written by the digits s[from..to]
RECURSIVE NumAt(_, _, _)
NumAt(s, from, to) ==
    IF to < from THEN 0 ELSE 10 * NumAt(s, from, to - 1) + DigitVal(s[to])

\* n written with at least width digits, zero-padded (n >= 0)
RECURSIVE Digits(_, _)
Digits(n, width) ==
    IF n < 10 /\ width <= 1 THEN <<DigitChars[n + 1]>>
    ELSE Digits(n \div 10, width - 1) \o <<DigitChars[(n % 10) + 1]>>

IsLeap(y) == (y % 4 = 0 /\ y % 100 # 0) \/ y % 400 = 0

DaysInMonth(y, m) ==
    IF m = 2 THEN (IF IsLeap(y) THEN 29 ELSE 28)
    ELSE IF m \in {4, 6, 9, 11} THEN 30 ELSE 31

\* day number of a proleptic Gregorian date, 1970-01-01 being day 0
DaysFromCivil(y, m, d) ==
    LET yy  == IF m <= 2 THEN y - 1 ELSE y
        era == yy \div 400
        yoe == yy - era * 400
        mp  == IF m > 2 THEN m - 3 ELSE m + 9
        doy == (153 * mp + 2) \div 5 + d - 1
        doe == yoe * 365 + yoe \div 4 - yoe \div 100 + doy
    IN  era * 146097 + doe - 719468

\* the date <<y, m, d>> of a day number
CivilFromDays(z) ==
    LET zz  == z + 719468
        era == zz \div 146097
        doe == zz - era * 146097
        yoe == (doe - doe \div 1460 + doe \div 36524 - doe \div 146096) \div 365
        doy == doe - (365 * yoe + yoe \div 4 - yoe \div 100)
        mp  == (5 * doy + 2) \div 153
        d   == doy - (153 * mp + 2) \div 5 + 1
        m   == IF mp < 10 THEN mp + 3 ELSE mp - 9
        y   == yoe + era * 400 + (IF m <= 2 THEN 1 ELSE 0)
    IN  <<y, m, d>>

\* FORMAT = "%Y%m%dT%H%M%SZ" on the fixed-width, unsigned texts the model feeds it:
\* four year digits, two digits for every other field, the literals T and Z.
MatchesFormat(s) ==
    /\ Len(s) = 16
    /\ \A i \in (1..8) \cup (10..15) : IsDigit(s[i])
    /\ s[9] = "T"
    /\ s[16] = "Z"

\* NaiveDateTime::parse_from_str(s, FORMAT): Some(<<days, secs>>), or None (Err)
ParseNaive(s) ==
    IF ~MatchesFormat(s) THEN None
    ELSE LET y  == NumAt(s, 1, 4)
             mo == NumAt(s, 5, 6)
             d  == NumAt(s, 7, 8)
             h  == NumAt(s, 10, 11)
             mi == NumAt(s, 12, 13)
             se == NumAt(s, 14, 15)
         IN  IF /\ y >= 0
                /\ mo \in 1..12
                /\ d \in 1..DaysInMonth(y, mo)
                /\ h <= 23 /\ mi <= 59 /\ se <= 59
             THEN Some(<<DaysFromCivil(y, mo, d), h * 3600 + mi * 60 + se>>)
             ELSE None

\* timewarrior_datetime::parse: the text is taken as a UTC date and time and is
\* given the local offset (from_naive_utc_and_offset); Some(DateTime) or None.
parse(s, offset) ==
    LET n == ParseNaive(s)
    IN  IF n = None THEN None
        ELSE Some([days |-> n[1][1], secs |-> n[1][2], offset |-> offset])

\* DateTime + seconds, on the UTC date and time
AddSeconds(dt, k) ==
    LET t == dt.secs + k
    IN  [dt EXCEPT !.days = dt.days + t \div 86400, !.secs = t % 86400]

\* DateTime::checked_sub_signed(Duration::seconds(k)); the dates of the model are
\* far from the ends of chrono's range, where it would give None
checked_sub_signed(dt, k) == Some(AddSeconds(dt, 0 - k))

\* DateTime::date_naive: the date of the local date and time
date_naive(dt) == CivilFromDays(AddSeconds(dt, dt.offset).days)

\* date_time_to_date_string: date_naive().format("%Y-%m-%d")
date_time_to_date_string(dt) ==
    LET d == date_naive(dt)
    IN  Digits(d[1], 4) \o <<"-">> \o Digits(d[2], 2) \o <<"-">> \o Digits(d[3], 2)

----------------------------------------------------------------------------
(* Setting, Interval, GroupReportRow, Data *)

TEMP_REPORT_START ==
    <<"t", "e", "m", "p", ".", "r", "e", "p", "o", "r", "t", ".", "s", "t", "a", "r", "t">>

TEMP_REPORT_END ==
    <<"t", "e", "m", "p", ".", "r", "e", "p", "o", "r", "t", ".", "e", "n", "d">>

\* Setting::value_to_date_time, before its unwrap(): Some(DateTime) or None
value_to_date_time(setting, offset) == parse(setting.value, offset)

\* find_setting, were the last setting of that name the one found
find_setting_last(ss, name) ==
    LET hits == {i \in 1..Len(ss) : ss[i].name = name}
    IN  IF hits = {} THEN None
        ELSE Some(ss[CHOOSE i \in hits : \A j \in hits : i >= j])

\* Data::find_setting: Some(the first setting of that name) or None
find_setting(ss, name) ==
    LET hits == {i \in 1..Len(ss) : ss[i].name = name}
    IN  IF hits = {} THEN None
        ELSE Some(ss[CHOOSE i \in hits : \A j \in hits : i <= j])

\* Data::report_title: [ok |-> TRUE, text |-> the title], or ok = FALSE when one
\* of its unwrap() calls panics
report_title(ss, offset) ==
    LET start == find_setting(ss, TEMP_REPORT_START)
        end   == find_setting(ss, TEMP_REPORT_END)
    IN  IF start # None /\ start[1].value # <<>> /\ end # None
        THEN LET s == value_to_date_time(start[1], offset)
                 e == value_to_date_time(end[1], offset)
             IN  IF s = None \/ e = None THEN [ok |-> FALSE, text |-> <<>>]
                 ELSE LET e1 == checked_sub_signed(e[1], 1)
                      IN  IF e1 = None THEN [ok |-> FALSE, text |-> <<>>]
                          ELSE [ok |-> TRUE,
                                text |-> date_time_to_date_string(s[1])
                                         \o <<" ", "-", " ">>
                                         \o date_time_to_date_string(e1[1])]
        ELSE [ok |-> TRUE, text |-> <<>>]

\* The largest chrono::Duration.  chrono's limit is i64::MAX milliseconds; the
\* model's integers are narrower, so the limit is scaled down.  It lies above
\* every sum of the short spans of IntervalSpans and below the sum of two of its
\* long spans, which stand for the many maximal intervals the real limit takes.
DURATION_MAX == 1000000000

\* Duration::checked_add: Some(sum), or None on overflow
checked_add(a, b) ==
    IF a + b > DURATION_MAX \/ a + b < 0 - DURATION_MAX THEN None ELSE Some(a + b)

\* i64 division truncates toward zero
TruncDiv(a, b) == IF a >= 0 THEN a \div b ELSE 0 - ((0 - a) \div b)

\* Duration::num_seconds, Duration::num_minutes
num_seconds(d) == d

num_minutes(d) == TruncDiv(num_seconds(d), 60)

\* duration, were an interval that ends before it starts counted as empty
duration_nonnegative(interval) ==
    IF interval.end < interval.start THEN 0 ELSE interval.end - interval.start

\* Interval::duration: end.signed_duration_since(start)
duration(interval) == interval.end - interval.start

\* Interval::title
IntervalTitle(interval) == Join(interval.tags, <<",", " ">>)

\* rows.iter_mut().find(|row| row.title == title): the index of the first such
\* row, or 0
FindRow(rs, t) ==
    LET hits == {i \in 1..Len(rs) : rs[i].title = t}
    IN  IF hits = {} THEN 0 ELSE CHOOSE i \in hits : \A j \in hits : i <= j

\* the for_each of Data::grouped_report_rows from interval i on, rs being the rows
\* so far: [ok |-> TRUE, rows |-> ...], or ok = FALSE when checked_add overflows
RECURSIVE GroupFrom(_, _, _)
GroupFrom(ivs, i, rs) ==
    IF i > Len(ivs) THEN [ok |-> TRUE, rows |-> rs]
    ELSE LET t == IntervalTitle(ivs[i])
             k == FindRow(rs, t)
         IN  IF k # 0
             THEN LET sum == checked_add(rs[k].duration, duration(ivs[i]))
                  IN  IF sum = None THEN [ok |-> FALSE, rows |-> rs]
                      ELSE GroupFrom(ivs, i + 1, [rs EXCEPT ![k].duration = sum[1]])
             ELSE GroupFrom(ivs, i + 1,
                            Append(rs, [title |-> t, duration |-> duration(ivs[i])]))

\* Data::grouped_report_rows
grouped_report_rows(ivs) == GroupFrom(ivs, 1, <<>>)

\* main, lines 176-179: Some(the sum of the rows' durations), or None on overflow
RECURSIVE TotalFrom(_, _, _)
TotalFrom(rs, i, acc) ==
    IF i > Len(rs) THEN Some(acc)
    ELSE LET sum == checked_add(acc, rs[i].duration)
         IN  IF sum = None THEN None ELSE TotalFrom(rs, i + 1, sum[1])

\* main, lines 170-175: the width of the title column
MINIMUM_TAGS_WIDTH == 12

MaxOf(S) == CHOOSE m \in S : \A k \in S : k <= m

MaxTitle(rs) == MaxOf({StrLen(rs[i].title) : i \in 1..Len(rs)} \cup {MINIMUM_TAGS_WIDTH})

\* Insert, were the sort not stable: a row goes before the rows of its own key
RECURSIVE Insert_BeforeEqual(_, _)
Insert_BeforeEqual(sorted, r) ==
    IF sorted = <<>> THEN <<r>>
    ELSE IF sorted[Len(sorted)].duration < r.duration THEN Append(sorted, r)
    ELSE Append(Insert_BeforeEqual(SubSeq(sorted, 1, Len(sorted) - 1), r),
                sorted[Len(sorted)])

\* rows.sort_by_key(|r| r.duration): a stable ascending sort.  Insert puts a row
\* after every row of the sorted prefix whose key is less than or equal to its own.
RECURSIVE Insert(_, _)
Insert(sorted, r) ==
    IF sorted = <<>> THEN <<r>>
    ELSE IF sorted[Len(sorted)].duration <= r.duration THEN Append(sorted, r)
    ELSE Append(Insert(SubSeq(sorted, 1, Len(sorted) - 1), r), sorted[Len(sorted)])

RECURSIVE SortFrom(_, _, _)
SortFrom(rs, i, sorted) ==
    IF i > Len(rs) THEN sorted ELSE SortFrom(rs, i + 1, Insert(sorted, rs[i]))

sort_by_key(rs) == SortFrom(rs, 1, <<>>)

----------------------------------------------------------------------------
(* Number formatting of the report lines *)

\* n / d rounded to the nearest integer, ties to the even one (d # 0), as
\* float formatting with a fixed precision rounds
RoundHalfEven(n, d) ==
    LET nn == IF d < 0 THEN 0 - n ELSE n
        dd == IF d < 0 THEN 0 - d ELSE d
        q  == nn \div dd
        r  == nn - q * dd
    IN  IF 2 * r < dd THEN q
        ELSE IF 2 * r > dd THEN q + 1
        ELSE IF q % 2 = 0 THEN q ELSE q + 1

\* {:10.1} of num_seconds() as f64 / 3600.0: the hours, in tenths
Hours(d) == RoundHalfEven(num_seconds(d), 360)

\* {:5.0} of num_minutes() as f64 / (total.num_minutes() as f64) * 100.0.
\* A float division by zero does not trap: it gives inf, -inf or NaN.
Percent(d, total) ==
    LET m == num_minutes(d)
        t == num_minutes(total)
    IN  IF t # 0 THEN [class |-> "finite", val |-> RoundHalfEven(100 * m, t)]
        ELSE IF m > 0 THEN [class |-> "inf", val |-> 0]
        ELSE IF m < 0 THEN [class |-> "-inf", val |-> 0]
        ELSE [class |-> "NaN", val |-> 0]

TAGS == <<"T", "A", "G", "S">>

TOTAL == <<"T", "O", "T", "A", "L">>

\* main, lines 181-192
HeaderLine(width) == [kind |-> "header", title |-> pad_string(TAGS, width)]

\* main, lines 197-207; GroupReportRow::padded_title
RowLine(row, width, total, last) ==
    [kind      |-> "row",
     title     |-> pad_string(row.title, width),
     minutes   |-> num_minutes(row.duration),
     hours     |-> Hours(row.duration),
     percent   |-> Percent(row.duration, total),
     underline |-> last]

\* main, lines 210-219
TotalLine(width, total) ==
    [kind    |-> "total",
     title   |-> pad_string(TOTAL, width),
     minutes |-> num_minutes(total),
     hours   |-> Hours(total)]

\* main, lines 230-239
AnnotationLine(interval, width, total) ==
    [kind       |-> "annotation",
     title      |-> pad_string(IntervalTitle(interval), width),
     minutes    |-> num_minutes(duration(interval)),
     hours      |-> Hours(duration(interval)),
     percent    |-> Percent(duration(interval), total),
     annotation |-> interval.annotation[1]]

\* annotated_intervals, were the annotations grouped like the rows: only the
\* first annotated interval of each title is kept
annotated_intervals_grouped(ivs) ==
    LET keep == {i \in 1..Len(ivs) :
                    /\ ivs[i].annotation # None
                    /\ \A j \in 1..(i - 1) :
                        ivs[j].annotation = None
                        \/ IntervalTitle(ivs[j]) # IntervalTitle(ivs[i])}
        RECURSIVE Pick(_)
        Pick(i) == IF i > Len(ivs) THEN <<>>
                   ELSE (IF i \in keep THEN <<ivs[i]>> ELSE <<>>) \o Pick(i + 1)
    IN  Pick(1)

\* main, lines 221-225
annotated_intervals(ivs) == SelectSeq(ivs, LAMBDA interval : interval.annotation # None)

----------------------------------------------------------------------------
(* The inputs *)

\* io::Result<String>, what stdin().lines() yields
OkLine(text) == [ok |-> TRUE, text |-> text]

ErrLine == [ok |-> FALSE, text |-> <<>>]

\* all Strings over the characters cs of length at most n
RECURSIVE StringsUpTo(_, _)
StringsUpTo(cs, n) ==
    IF n = 0 THEN {<<>>}
    ELSE LET shorter == StringsUpTo(cs, n - 1)
         IN  shorter \cup {Append(s, c) : s \in shorter, c \in cs}

\* all sequences over S of length at most n
RECURSIVE SeqsUpTo(_, _)
SeqsUpTo(S, n) ==
    IF n = 0 THEN {<<>>}
    ELSE LET shorter == SeqsUpTo(S, n - 1)
         IN  shorter \cup {Append(s, x) : s \in shorter, x \in S}

\* Local::now().offset(): UTC-5, UTC, UTC+1
TzOffsets == {0 - 18000, 0, 3600}

TS_20240101 ==
    <<"2", "0", "2", "4", "0", "1", "0", "1", "T", "0", "0", "0", "0", "0", "0", "Z">>

TS_20240201 ==
    <<"2", "0", "2", "4", "0", "2", "0", "1", "T", "0", "0", "0", "0", "0", "0", "Z">>

TS_20240301 ==
    <<"2", "0", "2", "4", "0", "3", "0", "1", "T", "0", "0", "0", "0", "0", "0", "Z">>

\* 30 February: matches the format, is no date
TS_20240230 ==
    <<"2", "0", "2", "4", "0", "2", "3", "0", "T", "0", "0", "0", "0", "0", "0", "Z">>

SEPARATOR == <<":", " ">>

SettingLine(name, value) == OkLine(name \o SEPARATOR \o value)

\* <<start, end>> of an interval, in seconds: 0 s, 90 s, -90 s, and a long span of
\* which two overflow DURATION_MAX
IntervalSpans == {<<0, 0>>, <<0, 90>>, <<90, 0>>, <<0, 600000000>>}

Annotations == {None, Some(<<"n">>)}

IntervalsOf(spans, taglists, annotations) ==
    {[start |-> sp[1], end |-> sp[2], tags |-> t, annotation |-> a] :
        sp \in spans, t \in taglists, a \in annotations}

\* The interval lists of the whole-program specification: every span and both
\* annotations over two tag lists, and three tag lists over the short spans
\* 90 s, 60 s and 30 s.
TwoTagLists == {<< <<"a">> >>, << <<"b">>, <<"a">> >>}

ThreeTagLists == TwoTagLists \cup {<< <<"c">> >>}

ShortSpans == {<<0, 90>>, <<0, 60>>, <<60, 90>>}

MainIntervalLists ==
    SeqsUpTo(IntervalsOf(IntervalSpans, TwoTagLists, Annotations), MaxIntervals)
    \cup SeqsUpTo(IntervalsOf(ShortSpans, ThreeTagLists, {None}), MaxIntervals)

\* what serde_json::from_str::<Vec<Interval>> returns: Err, or Ok(intervals)
DecodeResults ==
    {[ok |-> FALSE, intervals |-> <<>>]} \cup
    {[ok |-> TRUE, intervals |-> ivs] : ivs \in MainIntervalLists}

\* the inputs of the whole-program specification: a payload alone; the settings
\* of a report range, a blank line and the payload; a start setting whose value
\* is no timestamp; an input that stops being readable text
MainInputs ==
    {<<OkLine(<<"[">>), OkLine(<<"]">>)>>,
     <<SettingLine(TEMP_REPORT_START, TS_20240101),
       SettingLine(TEMP_REPORT_END, TS_20240201),
       OkLine(<<>>), OkLine(<<"[">>), OkLine(<<"]">>)>>,
     <<SettingLine(TEMP_REPORT_START, <<"x">>),
       SettingLine(TEMP_REPORT_END, TS_20240201),
       OkLine(<<"[">>), OkLine(<<"]">>)>>,
     <<SettingLine(TEMP_REPORT_START, TS_20240101), ErrLine>>}

----------------------------------------------------------------------------
(* get_data *)

Panic(line) ==
    /\ pc' = "panicked"
    /\ panic_line' = line

\* the Setting of a line that holds ": " at index sep (counted from 0)
SettingOf(text, sep) ==
    [name  |-> SubSeq(text, 1, sep),
     value |-> SubSeq(text, sep + 3, Len(text))]

\* one turn of the for_each over stdin().lines(), lines 141-153
ReadLine ==
    /\ pc = "read"
    /\ nread < Len(stdin)
    /\ nread' = nread + 1
    /\ LET line == stdin[nread + 1]
           sep  == Find(line.text, SEPARATOR)
       IN  IF ~line.ok
           THEN /\ Panic(142)
                /\ UNCHANGED <<settings, interval_lines>>
           ELSE /\ UNCHANGED <<pc, panic_line>>
                /\ IF sep # None
                   THEN /\ settings' = Append(settings, SettingOf(line.text, sep[1]))
                        /\ UNCHANGED interval_lines
                   ELSE IF line.text # <<"\n">>
                   THEN /\ interval_lines' = Append(interval_lines, line.text)
                        /\ UNCHANGED settings
                   ELSE UNCHANGED <<settings, interval_lines>>
    /\ UNCHANGED <<stdin, tz, payload, intervals, title, rows, max_title,
                   total_duration, it, annotated, stdout>>

\* line 154, the argument: interval_lines.join(""), once stdin is exhausted
JoinLines ==
    /\ pc = "read"
    /\ nread = Len(stdin)
    /\ payload' = Some(Join(interval_lines, <<>>))
    /\ pc' = "decode"
    /\ UNCHANGED <<panic_line, stdin, nread, tz, settings, interval_lines, intervals,
                   title, rows, max_title, total_duration, it, annotated, stdout>>

\* lines 154-158: serde_json::from_str(..).unwrap() and the Data returned to main
Decode ==
    /\ pc = "decode"
    /\ \E r \in DecodeResults :
        /\ IF r.ok
           THEN /\ intervals' = r.intervals
                /\ pc' = "title"
                /\ UNCHANGED panic_line
           ELSE /\ Panic(154)
                /\ UNCHANGED intervals
    /\ UNCHANGED <<stdin, nread, tz, settings, interval_lines, payload, title, rows,
                   max_title, total_duration, it, annotated, stdout>>

----------------------------------------------------------------------------
(* main *)

\* lines 167-168: the title line and the blank line
PrintTitle ==
    /\ pc = "title"
    /\ LET t == report_title(settings, tz)
       IN  IF t.ok
           THEN /\ title' = Some(t.text)
                /\ stdout' = stdout \o <<[kind |-> "title", text |-> t.text],
                                         [kind |-> "blank"]>>
                /\ pc' = "group"
                /\ UNCHANGED panic_line
           ELSE /\ Panic(39)
                /\ UNCHANGED <<title, stdout>>
    /\ UNCHANGED <<stdin, nread, tz, settings, interval_lines, payload, intervals,
                   rows, max_title, total_duration, it, annotated>>

\* lines 169-179: rows, max_title, total_duration
GroupRows ==
    /\ pc = "group"
    /\ LET g == grouped_report_rows(intervals)
           t == TotalFrom(g.rows, 1, 0)
       IN  IF ~g.ok
           THEN /\ Panic(126)
                /\ UNCHANGED <<rows, max_title, total_duration>>
           ELSE IF t = None
           THEN /\ Panic(178)
                /\ UNCHANGED <<rows, max_title, total_duration>>
           ELSE /\ rows' = g.rows
                /\ max_title' = MaxTitle(g.rows)
                /\ total_duration' = t[1]
                /\ pc' = "header"
                /\ UNCHANGED panic_line
    /\ UNCHANGED <<stdin, nread, tz, settings, interval_lines, payload, intervals,
                   title, it, annotated, stdout>>

\* lines 181-195: the header line, the sort, the reversed iterator
PrintHeader ==
    /\ pc = "header"
    /\ stdout' = Append(stdout, HeaderLine(max_title))
    /\ rows' = sort_by_key(rows)
    /\ it' = Len(rows)
    /\ pc' = "rows"
    /\ UNCHANGED <<panic_line, stdin, nread, tz, settings, interval_lines, payload,
                   intervals, title, max_title, total_duration, annotated>>

\* one turn of the while let, lines 196-209: rows.iter().rev() yields rows[it]
PrintRow ==
    /\ pc = "rows"
    /\ it > 0
    /\ stdout' = Append(stdout, RowLine(rows[it], max_title, total_duration, it = 1))
    /\ it' = it - 1
    /\ UNCHANGED <<pc, panic_line, stdin, nread, tz, settings, interval_lines,
                   payload, intervals, title, rows, max_title, total_duration, annotated>>

\* lines 210-219
PrintTotal ==
    /\ pc = "rows"
    /\ it = 0
    /\ stdout' = Append(stdout, TotalLine(max_title, total_duration))
    /\ pc' = "annotations"
    /\ UNCHANGED <<panic_line, stdin, nread, tz, settings, interval_lines, payload,
                   intervals, title, rows, max_title, total_duration, it, annotated>>

\* lines 221-228: annotated_intervals and, if there are any, the section's head
BeginAnnotations ==
    /\ pc = "annotations"
    /\ annotated' = annotated_intervals(intervals)
    /\ IF annotated' # <<>>
       THEN /\ stdout' = stdout \o <<[kind |-> "blank"], [kind |-> "label"]>>
            /\ pc' = "annotation_lines"
       ELSE /\ pc' = "done"
            /\ UNCHANGED stdout
    /\ UNCHANGED <<panic_line, stdin, nread, tz, settings, interval_lines, payload,
                   intervals, title, rows, max_title, total_duration, it>>

\* one turn of the for_each, lines 229-240
PrintAnnotation ==
    /\ pc = "annotation_lines"
    /\ annotated # <<>>
    /\ stdout' = Append(stdout, AnnotationLine(Head(annotated), max_title, total_duration))
    /\ annotated' = Tail(annotated)
    /\ pc' = IF Tail(annotated) = <<>> THEN "done" ELSE "annotation_lines"
    /\ UNCHANGED <<panic_line, stdin, nread, tz, settings, interval_lines, payload,
                   intervals, title, rows, max_title, total_duration, it>>

\* the state of a process that has run nothing yet
Fresh ==
    /\ panic_line = 0
    /\ nread = 0
    /\ settings = <<>>
    /\ interval_lines = <<>>
    /\ payload = None
    /\ intervals = <<>>
    /\ title = None
    /\ rows = <<>>
    /\ max_title = 0
    /\ total_duration = 0
    /\ it = 0
    /\ annotated = <<>>
    /\ stdout = <<>>

\* The whole program, on a host whose local time is UTC.
Init ==
    /\ pc = "read"
    /\ stdin \in MainInputs
    /\ tz = 0
    /\ Fresh

Next ==
    \/ ReadLine
    \/ JoinLines
    \/ Decode
    \/ PrintTitle
    \/ GroupRows
    \/ PrintHeader
    \/ PrintRow
    \/ PrintTotal
    \/ BeginAnnotations
    \/ PrintAnnotation

Spec == Init /\ [][Next]_vars

----------------------------------------------------------------------------
(* get_data's line loop alone, on every short input *)

\* a letter, and the two characters of the separator; stdin().lines() yields no
\* line that holds a line feed
LineChars == {"a", ":", " "}

InitParse ==
    /\ pc = "read"
    /\ stdin \in SeqsUpTo({OkLine(s) : s \in StringsUpTo(LineChars, MaxLineLen)}, MaxLines)
    /\ tz = 0
    /\ Fresh

NextParse ==
    \/ ReadLine
    \/ JoinLines

SpecParse == InitParse /\ [][NextParse]_vars

----------------------------------------------------------------------------
(* Data::report_title alone, on every short settings list *)

TitleSettings ==
    {[name |-> n, value |-> v] :
        n \in {TEMP_REPORT_START, TEMP_REPORT_END, <<"x">>},
        v \in {<<>>, TS_20240101, TS_20240201, TS_20240301, TS_20240230}}

InitTitle ==
    /\ pc = "report_title"
    /\ stdin = <<>>
    /\ tz \in TzOffsets
    /\ nread = 0
    /\ panic_line = 0
    /\ interval_lines = <<>>
    /\ payload = None
    /\ intervals = <<>>
    /\ title = None
    /\ rows = <<>>
    /\ max_title = 0
    /\ total_duration = 0
    /\ it = 0
    /\ annotated = <<>>
    /\ stdout = <<>>
    /\ settings \in SeqsUpTo(TitleSettings, MaxSettings)

ReportTitle ==
    /\ pc = "report_title"
    /\ LET t == report_title(settings, tz)
       IN  IF t.ok
           THEN /\ title' = Some(t.text)
                /\ pc' = "returned"
                /\ UNCHANGED panic_line
           ELSE /\ Panic(39)
                /\ UNCHANGED title
    /\ UNCHANGED <<stdin, nread, tz, settings, interval_lines, payload, intervals,
                   rows, max_title, total_duration, it, annotated, stdout>>

NextTitle == ReportTitle

SpecTitle == InitTitle /\ [][NextTitle]_vars

----------------------------------------------------------------------------
(* Data::grouped_report_rows alone, on every short interval list *)

\* no tag, an empty tag, one tag, two tags in both orders, a tag twice, and one
\* tag that holds a comma and a space
RowTagLists ==
    {<<>>,
     << <<>> >>,
     << <<"a">> >>,
     << <<"a">>, <<"b">> >>,
     << <<"b">>, <<"a">> >>,
     << <<"a">>, <<"a">> >>,
     << <<"a", ",", " ", "b">> >>}

RowSpans == {<<0, 60>>, <<0, 90>>, <<90, 0>>, <<0, 600000000>>}

InitRows ==
    /\ pc = "grouped_report_rows"
    /\ stdin = <<>>
    /\ tz = 0
    /\ nread = 0
    /\ panic_line = 0
    /\ settings = <<>>
    /\ interval_lines = <<>>
    /\ payload = None
    /\ intervals \in SeqsUpTo(IntervalsOf(RowSpans, RowTagLists, {None}), MaxIntervals)
    /\ title = None
    /\ rows = <<>>
    /\ max_title = 0
    /\ total_duration = 0
    /\ it = 0
    /\ annotated = <<>>
    /\ stdout = <<>>

GroupedReportRows ==
    /\ pc = "grouped_report_rows"
    /\ LET g == grouped_report_rows(intervals)
       IN  IF g.ok
           THEN /\ rows' = g.rows
                /\ pc' = "returned"
                /\ UNCHANGED panic_line
           ELSE /\ Panic(126)
                /\ UNCHANGED rows
    /\ UNCHANGED <<stdin, nread, tz, settings, interval_lines, payload, intervals,
                   title, max_title, total_duration, it, annotated, stdout>>

NextRows == GroupedReportRows

SpecRows == InitRows /\ [][NextRows]_vars

----------------------------------------------------------------------------
(* Properties of the whole program *)

Abs(n) == IF n < 0 THEN 0 - n ELSE n

\* main has computed rows and total_duration
AfterGrouping == pc \in {"header", "rows", "annotations", "annotation_lines", "done"}

\* the sum of end - start over ivs[i], ivs[i + 1], ...
RECURSIVE SpanSum(_, _)
SpanSum(ivs, i) ==
    IF i > Len(ivs) THEN 0 ELSE (ivs[i].end - ivs[i].start) + SpanSum(ivs, i + 1)

RECURSIVE RowSum(_, _)
RowSum(rs, i) == IF i > Len(rs) THEN 0 ELSE rs[i].duration + RowSum(rs, i + 1)

\* m is the number of whole minutes of s seconds
WholeMinutes(m, s) ==
    IF s >= 0 THEN 60 * m <= s /\ s < 60 * m + 60
    ELSE 60 * m >= s /\ s > 60 * m - 60

LinesOfKind(kind) == SelectSeq(stdout, LAMBDA l : l.kind = kind)

\* C2: once grouped_report_rows has returned, the durations of its rows sum to the
\* sum of end - start over all intervals, negative ones included; total_duration
\* is that sum, and the TOTAL line shows its whole minutes.
C2_DurationsConserved ==
    /\ AfterGrouping =>
        /\ RowSum(rows, 1) = SpanSum(intervals, 1)
        /\ total_duration = SpanSum(intervals, 1)
    /\ \A k \in 1..Len(stdout) :
        stdout[k].kind = "total" => WholeMinutes(stdout[k].minutes, SpanSum(intervals, 1))

\* a finished run over three intervals, one of them negative, grouped into two rows
C2_Witness ==
    /\ pc = "done"
    /\ Len(intervals) = 3
    /\ Len(rows) = 2
    /\ \E i \in 1..Len(intervals) : intervals[i].end < intervals[i].start
    /\ Len(LinesOfKind("total")) = 1

\* The group of a printed row line: the first interval whose padded title it shows.
LineInterval(l) ==
    CHOOSE i \in 1..Len(intervals) :
        /\ pad_string(IntervalTitle(intervals[i]), max_title) = l.title
        /\ \A j \in 1..(i - 1) :
            pad_string(IntervalTitle(intervals[j]), max_title) # l.title

\* the total of the intervals that have the title of interval i
RECURSIVE GroupSpanSum(_, _)
GroupSpanSum(i, j) ==
    IF j > Len(intervals) THEN 0
    ELSE (IF IntervalTitle(intervals[j]) = IntervalTitle(intervals[i])
          THEN intervals[j].end - intervals[j].start ELSE 0) + GroupSpanSum(i, j + 1)

LineDuration(l) == GroupSpanSum(LineInterval(l), 1)

\* C3 as stated: the row lines are printed with non-increasing durations, and rows
\* of equal duration in the order in which their tags first occur in the input.
C3_TiesInFirstOccurrenceOrder ==
    LET shown == LinesOfKind("row")
    IN  \A i, j \in 1..Len(shown) :
            i < j =>
                /\ LineDuration(shown[i]) >= LineDuration(shown[j])
                /\ LineDuration(shown[i]) = LineDuration(shown[j])
                    => LineInterval(shown[i]) < LineInterval(shown[j])

\* C3, amended: the row lines are printed with non-increasing durations, and rows
\* of equal duration in the reverse of the order in which their tags first occur.
C3_TiesInReverseOrder ==
    LET shown == LinesOfKind("row")
    IN  \A i, j \in 1..Len(shown) :
            i < j =>
                /\ LineDuration(shown[i]) >= LineDuration(shown[j])
                /\ LineDuration(shown[i]) = LineDuration(shown[j])
                    => LineInterval(shown[i]) > LineInterval(shown[j])

\* a finished run that printed three rows, two of them of equal duration
C3_Witness ==
    LET shown == LinesOfKind("row")
    IN  /\ pc = "done"
        /\ Len(shown) = 3
        /\ \E i, j \in 1..3 :
            /\ i # j
            /\ LineDuration(shown[i]) = LineDuration(shown[j])
        /\ \E i, j \in 1..3 : LineDuration(shown[i]) # LineDuration(shown[j])

RECURSIVE PercentSum(_, _)
PercentSum(ls, i) == IF i > Len(ls) THEN 0 ELSE ls[i].percent.val + PercentSum(ls, i + 1)

\* C4: when the total duration is not zero, the percentages of the printed rows are
\* numbers and sum to 100, up to half a point of rounding for each row.
C4_PercentagesSumTo100 ==
    LET shown == LinesOfKind("row")
    IN  (pc \in {"annotations", "annotation_lines", "done"} /\ total_duration # 0) =>
            /\ \A k \in 1..Len(shown) : shown[k].percent.class = "finite"
            /\ 2 * Abs(PercentSum(shown, 1) - 100) <= Len(shown)

\* C10: when the total duration is zero, every percentage printed, in a row line or
\* in an annotation line, is 0.
C10_ZeroTotalPercentIsZero ==
    (AfterGrouping /\ total_duration = 0) =>
        \A k \in 1..Len(stdout) :
            stdout[k].kind \in {"row", "annotation"} =>
                stdout[k].percent = [class |-> "finite", val |-> 0]

\* C6: a run that aborts has written nothing to standard output.
C6_NoOutputBeforeAbort == pc = "panicked" => stdout = <<>>

\* the intervals ivs[i], ivs[i + 1], ... that carry an annotation
RECURSIVE WithAnnotation(_, _)
WithAnnotation(ivs, i) ==
    IF i > Len(ivs) THEN <<>>
    ELSE (IF Len(ivs[i].annotation) = 1 THEN <<ivs[i]>> ELSE <<>>)
         \o WithAnnotation(ivs, i + 1)

\* C7: a finished run has printed the annotations label exactly when some interval
\* has an annotation, and after it one line for each annotated interval, in input
\* order, with that interval's own title, minutes and annotation.
C7_AnnotationLines ==
    pc = "done" =>
        LET expected == WithAnnotation(intervals, 1)
            shown    == LinesOfKind("annotation")
            labels   == {k \in 1..Len(stdout) : stdout[k].kind = "label"}
        IN  /\ Len(shown) = Len(expected)
            /\ \A k \in 1..Len(shown) :
                /\ shown[k].annotation = expected[k].annotation[1]
                /\ shown[k].title = pad_string(IntervalTitle(expected[k]), max_title)
                /\ WholeMinutes(shown[k].minutes, expected[k].end - expected[k].start)
            /\ (labels # {}) <=> (expected # <<>>)
            /\ Cardinality(labels) <= 1
            /\ \A k \in labels :
                /\ k + Len(shown) = Len(stdout)
                /\ \A n \in (k + 1)..Len(stdout) : stdout[n].kind = "annotation"

\* a finished run with two annotated intervals of the same tags and different
\* durations, and one interval without annotation
C7_Witness ==
    /\ pc = "done"
    /\ Len(LinesOfKind("annotation")) = 2
    /\ Len(intervals) = 3
    /\ \E i, j \in 1..3 :
        /\ i < j
        /\ intervals[i].annotation # None
        /\ intervals[j].annotation # None
        /\ intervals[i].tags = intervals[j].tags
        /\ intervals[i].end - intervals[i].start # intervals[j].end - intervals[j].start

----------------------------------------------------------------------------
(* Properties of grouped_report_rows *)

\* the sum of end - start over the intervals ivs[i], ivs[i + 1], ... of tags tg
RECURSIVE TagsSpanSum(_, _, _)
TagsSpanSum(ivs, tg, i) ==
    IF i > Len(ivs) THEN 0
    ELSE (IF ivs[i].tags = tg THEN ivs[i].end - ivs[i].start ELSE 0)
         + TagsSpanSum(ivs, tg, i + 1)

\* C1: for the tag sequence of every interval, the rows returned hold exactly one
\* row whose title is that sequence joined with ", ", and its duration is the sum
\* of end - start over the intervals of that tag sequence.
C1_OneRowPerTagSequence ==
    pc = "returned" =>
        \A i \in 1..Len(intervals) :
            LET tg      == intervals[i].tags
                titled  == {k \in 1..Len(rows) : rows[k].title = Join(tg, <<",", " ">>)}
            IN  /\ Cardinality(titled) = 1
                /\ \A k \in titled : rows[k].duration = TagsSpanSum(intervals, tg, 1)

\* C9: the rows returned are as many as the distinct tag sequences of the input.
C9_RowsAreDistinctTagSequences ==
    pc = "returned" =>
        Len(rows) = Cardinality({intervals[i].tags : i \in 1..Len(intervals)})

----------------------------------------------------------------------------
(* Properties of report_title *)

\* the index of the first setting of that name, or 0
FirstNamed(ss, name) ==
    IF \E i \in 1..Len(ss) : ss[i].name = name
    THEN CHOOSE i \in 1..Len(ss) :
            /\ ss[i].name = name
            /\ \A j \in 1..(i - 1) : ss[j].name # name
    ELSE 0

\* a start setting with a value, and an end setting
HasRange(ss) ==
    /\ FirstNamed(ss, TEMP_REPORT_START) # 0
    /\ ss[FirstNamed(ss, TEMP_REPORT_START)].value # <<>>
    /\ FirstNamed(ss, TEMP_REPORT_END) # 0

StartValue(ss) == ss[FirstNamed(ss, TEMP_REPORT_START)].value

EndValue(ss) == ss[FirstNamed(ss, TEMP_REPORT_END)].value

\* YYYY-MM-DD of the timestamp text ts moved by k seconds
DateTextOf(ts, k) ==
    LET n    == ParseNaive(ts)[1]
        days == n[1] + (n[2] + k) \div 86400
        d    == CivilFromDays(days)
    IN  Digits(d[1], 4) \o <<"-">> \o Digits(d[2], 2) \o <<"-">> \o Digits(d[3], 2)

\* the title of a settings list whose range parses, the timestamps being moved by
\* shift seconds before their dates are taken
RangeTitle(ss, shift) ==
    IF HasRange(ss)
    THEN DateTextOf(StartValue(ss), shift) \o <<" ", "-", " ">>
         \o DateTextOf(EndValue(ss), shift - 1)
    ELSE <<>>

ExampleSettings ==
    <<[name |-> TEMP_REPORT_START, value |-> TS_20240101],
      [name |-> TEMP_REPORT_END, value |-> TS_20240201]>>

ExampleTitle ==
    <<"2", "0", "2", "4", "-", "0", "1", "-", "0", "1", " ", "-", " ",
      "2", "0", "2", "4", "-", "0", "1", "-", "3", "1">>

----------------------------------------------------------------------------
(* Properties of get_data *)

HasSeparator(text) ==
    \E i \in 1..(Len(text) - 1) : text[i] = ":" /\ text[i + 1] = " "

\* the texts of the lines taken so far
LinesRead == [i \in 1..nread |-> stdin[i].text]

\* C8: every line taken with a ": " in it has given one Setting, whose name has no
\* ": " and whose name, ": " and value make up the line; every other line that is
\* not empty is in interval_lines; an empty line is in neither; both keep the
\* order of the lines; the payload is the lines of interval_lines put end to end.
C8_LineClassification ==
    LET named == SelectSeq(LinesRead, HasSeparator)
        other == SelectSeq(LinesRead, LAMBDA t : ~HasSeparator(t) /\ t # <<>>)
    IN  /\ Len(settings) = Len(named)
        /\ \A k \in 1..Len(settings) :
            /\ settings[k].name \o <<":", " ">> \o settings[k].value = named[k]
            /\ ~HasSeparator(settings[k].name)
        /\ interval_lines = other
        /\ pc = "decode" => payload = Some(Join(other, <<>>))

====
